---- MODULE Spec2Model ----
(***************************************************************************)
(* A model of job_agent.py, the single-pass job watcher: the pure helpers  *)
(* (keywords_match, make_id, the disabled seen-store), the source          *)
(* fetchers, the two notifiers and run_once, the orchestrator.             *)
(*                                                                         *)
(* Python strings are modelled as sequences of one-character strings, so   *)
(* that str.lower(), the `in` substring test and the UTF-8 encoding that   *)
(* feeds SHA-1 are computed rather than assumed.  Only printable ASCII is  *)
(* modelled.                                                               *)
(***************************************************************************)
EXTENDS Integers, Sequences, FiniteSets, TLC

(***************************************************************************)
(* Characters and strings                                                  *)
(***************************************************************************)

\* The printable ASCII characters, code 32 (space) to code 126 (~), in order.
\* Three of them are spelled out by name; they occur in no modelled string.
Printable ==
  << " ", "!", "QUOTE", "#", "$", "%", "&", "'", "(", ")", "*", "+", ",", "-", ".", "/",
     "0", "1", "2", "3", "4", "5", "6", "7", "8", "9", ":", ";", "<", "=", ">", "?",
     "@", "A", "B", "C", "D", "E", "F", "G", "H", "I", "J", "K", "L", "M", "N", "O",
     "P", "Q", "R", "S", "T", "U", "V", "W", "X", "Y", "Z", "[", "BACKSLASH", "]", "^", "_",
     "GRAVE", "a", "b", "c", "d", "e", "f", "g", "h", "i", "j", "k", "l", "m", "n", "o",
     "p", "q", "r", "s", "t", "u", "v", "w", "x", "y", "z", "{", "|", "}", "~" >>

\* The code point of a character: what str.encode('utf-8') yields for ASCII.
Ord(c) == 31 + (CHOOSE i \in 1..Len(Printable) : Printable[i] = c)

Chr(n) == Printable[n - 31]

\* str.lower() on one character: A..Z (65..90) map to a..z, the rest stay.
LowerChar(c) == IF Ord(c) >= 65 /\ Ord(c) <= 90 THEN Chr(Ord(c) + 32) ELSE c

\* str.lower()
Lower(s) == [i \in 1..Len(s) |-> LowerChar(s[i])]

\* Python's `sub in s` for strings: sub occurs as a contiguous run of s.
\* The empty string is in every string.
Contains(s, sub) ==
  \E i \in 0..(Len(s) - Len(sub)) :
     \A j \in 1..Len(sub) : s[i + j] = sub[j]

(***************************************************************************)
(* make_id: hashlib.sha1(text.encode('utf-8')).hexdigest()                 *)
(*                                                                         *)
(* SHA-1 (FIPS 180-4) on 32-bit words kept as <<high, low>> 16-bit halves, *)
(* so that no intermediate value leaves the 32-bit integer range of TLC.    *)
(***************************************************************************)

Half == 65536

RECURSIVE And16(_, _)
And16(a, b) ==
  IF a = 0 \/ b = 0 THEN 0
  ELSE 2 * And16(a \div 2, b \div 2) + (a % 2) * (b % 2)

RECURSIVE Xor16(_, _)
Xor16(a, b) ==
  IF a = 0 THEN b
  ELSE IF b = 0 THEN a
  ELSE 2 * Xor16(a \div 2, b \div 2) + ((a + b) % 2)

Not16(a) == (Half - 1) - a

WAnd(x, y) == << And16(x[1], y[1]), And16(x[2], y[2]) >>
WXor(x, y) == << Xor16(x[1], y[1]), Xor16(x[2], y[2]) >>
WNot(x) == << Not16(x[1]), Not16(x[2]) >>

\* x | y, for x and y with no bit in common
WOrDisjoint(x, y) == << x[1] + y[1], x[2] + y[2] >>

\* addition modulo 2^32
WAdd(x, y) ==
  LET lo == x[2] + y[2]
      hi == x[1] + y[1] + (lo \div Half)
  IN  << hi % Half, lo % Half >>

RECURSIVE Pow2(_)
Pow2(n) == IF n = 0 THEN 1 ELSE 2 * Pow2(n - 1)

\* rotate left by n bits, 0 < n < 16
RotlSmall(x, n) ==
  LET p == Pow2(n)
      q == Pow2(16 - n)
  IN  << ((x[1] * p) % Half) + (x[2] \div q),
         ((x[2] * p) % Half) + (x[1] \div q) >>

\* rotate left by n bits, 0 < n < 32, n # 16
Rotl(x, n) == IF n < 16 THEN RotlSmall(x, n) ELSE RotlSmall(<< x[2], x[1] >>, n - 16)

\* The round function and constant of round t (0-based).
ShaF(t, b, c, d) ==
  IF t < 20 THEN WOrDisjoint(WAnd(b, c), WAnd(WNot(b), d))
  ELSE IF t < 40 THEN WXor(WXor(b, c), d)
  ELSE IF t < 60 THEN WOrDisjoint(WAnd(b, c), WAnd(d, WXor(b, c)))
  ELSE WXor(WXor(b, c), d)

ShaK(t) ==
  IF t < 20 THEN << 23170, 31129 >>        \* 5A827999
  ELSE IF t < 40 THEN << 28377, 60321 >>   \* 6ED9EBA1
  ELSE IF t < 60 THEN << 36635, 48348 >>   \* 8F1BBCDC
  ELSE << 51810, 49622 >>                  \* CA62C1D6

\* The initial hash value: 67452301 EFCDAB89 98BADCFE 10325476 C3D2E1F0.
ShaInit ==
  << << 26437, 8961 >>, << 61389, 43913 >>, << 39098, 56574 >>,
     << 4146, 21622 >>, << 50130, 57840 >> >>

\* Message padding: the bytes, 0x80, zeros up to 56 mod 64, the bit length
\* as a 64-bit big-endian integer (messages here are far below 2^16 bytes).
ShaPad(bytes) ==
  LET n == Len(bytes)
      z == (119 - n) % 64
      bits == 8 * n
  IN  bytes \o << 128 >> \o [i \in 1..z |-> 0]
        \o << 0, 0, 0, 0, 0, 0, bits \div 256, bits % 256 >>

\* The 16 words of block k (0-based) of the padded message.
ShaBlock(m, k) ==
  [i \in 1..16 |->
     LET o == 64 * k + 4 * (i - 1)
     IN  << 256 * m[o + 1] + m[o + 2], 256 * m[o + 3] + m[o + 4] >>]

\* The message schedule: w holds words 0..Len(w)-1, extended to 80 words.
RECURSIVE ShaSchedule(_)
ShaSchedule(w) ==
  IF Len(w) = 80 THEN w
  ELSE LET t == Len(w) + 1
           x == WXor(WXor(w[t - 3], w[t - 8]), WXor(w[t - 14], w[t - 16]))
       IN  ShaSchedule(Append(w, Rotl(x, 1)))

\* The rounds still to run, from the working variables and the round
\* counter v = <<a, b, c, d, e, t>>, t being 0-based.
RECURSIVE ShaRounds(_, _)
ShaRounds(v, w) ==
  IF v[6] = 80 THEN v
  ELSE LET t == v[6]
           tmp == WAdd(WAdd(WAdd(Rotl(v[1], 5), ShaF(t, v[2], v[3], v[4])),
                            WAdd(v[5], ShaK(t))), w[t + 1])
       IN  ShaRounds(<< tmp, v[1], Rotl(v[2], 30), v[3], v[4], t + 1 >>, w)

\* Blocks k.. of the padded message m, starting from hash value h.
RECURSIVE ShaBlocks(_, _, _)
ShaBlocks(h, m, k) ==
  IF 64 * k >= Len(m) THEN h
  ELSE LET v == ShaRounds(h \o << 0 >>, ShaSchedule(ShaBlock(m, k)))
       IN  ShaBlocks([i \in 1..5 |-> WAdd(h[i], v[i])], m, k + 1)

HexDigits == << "0", "1", "2", "3", "4", "5", "6", "7",
                "8", "9", "a", "b", "c", "d", "e", "f" >>

Hex16(x) ==
  HexDigits[(x \div 4096) + 1] \o HexDigits[((x \div 256) % 16) + 1]
    \o HexDigits[((x \div 16) % 16) + 1] \o HexDigits[(x % 16) + 1]

HexWord(x) == Hex16(x[1]) \o Hex16(x[2])

\* hashlib.sha1(bytes).hexdigest(): 40 lowercase hexadecimal digits.
HexDigest(h) ==
  HexWord(h[1]) \o HexWord(h[2]) \o HexWord(h[3]) \o HexWord(h[4]) \o HexWord(h[5])

Sha1Hex(bytes) == HexDigest(ShaBlocks(ShaInit, ShaPad(bytes), 0))

\* str.encode('utf-8'), for the ASCII strings modelled
Utf8(s) == [i \in 1..Len(s) |-> Ord(s[i])]

(***************************************************************************)
(* Python values                                                           *)
(*                                                                         *)
(* A value that crosses an untyped boundary (a JSON field, a feed entry's  *)
(* field) carries its type: the code's `or`, f-string formatting and       *)
(* .encode() depend on it.                                                 *)
(***************************************************************************)

None == [type |-> "NoneType"]
PyStr(s) == [type |-> "str", value |-> s]
PyInt(n) == [type |-> "int", number |-> n]
PyDict(f) == [type |-> "dict", fields |-> f]

\* bool(v)
Truthy(v) ==
  CASE v.type = "str" -> v.value # <<>>
    [] v.type = "int" -> v.number # 0
    [] v.type = "dict" -> DOMAIN v.fields # {}
    [] OTHER -> FALSE

\* a or b
PyOr(a, b) == IF Truthy(a) THEN a ELSE b

\* dict.get(key, default) on the fields of a dict
DictGet(f, key, default) == IF key \in DOMAIN f THEN f[key] ELSE default

\* str(n) for n >= 0
RECURSIVE Decimal(_)
Decimal(n) ==
  IF n < 10 THEN << Chr(48 + n) >> ELSE Decimal(n \div 10) \o << Chr(48 + (n % 10)) >>

\* format(v, ''), what an f-string field yields
Format(v) ==
  CASE v.type = "str" -> v.value
    [] v.type = "int" -> Decimal(v.number)
    [] OTHER -> << "N", "o", "n", "e" >>

\* The outcome of a call that may raise.
Return(v) == [raised |-> FALSE, value |-> v]
Raise(exc) == [raised |-> TRUE, value |-> exc]

(***************************************************************************)
(* CONFIG: the constants of the script                                     *)
(***************************************************************************)

DB_PATH == "jobs_seen.db"

KEYWORDS ==
  << << "p", "y", "t", "h", "o", "n" >>,
     << "d", "j", "a", "n", "g", "o" >>,
     << "f", "a", "s", "t", "a", "p", "i" >>,
     << "f", "a", "s", "t", " ", "j", "o", "b" >>,
     << "f", "r", "e", "e", "l", "a", "n", "c", "i", "n", "g", " ", "j", "o", "b" >>,
     << "f", "r", "e", "e", "l", "a", "n", "c", "e" >> >>

MIN_KEYWORD_MATCH == 1

SMTP_HOST == "smtp.gmail.com"

SMTP_PORT == 587

EMAIL_TO == ""

(***************************************************************************)
(* The helpers                                                             *)
(***************************************************************************)

\* init_db: the database is disabled, the handle is None.
init_db(path) == None

\* make_id: the SHA-1 hex digest of (text or "").encode('utf-8'); a truthy
\* value that is no string has no .encode and raises AttributeError.
make_id(text) ==
  LET t == PyOr(text, PyStr(<<>>))
  IN  IF t.type = "str" THEN Return(Sha1Hex(Utf8(t.value))) ELSE Raise("AttributeError")

\* seen_contains: disabled, every job is new.
seen_contains(c, id) == FALSE

\* A mark_seen that uses the handle, as an enabled store would
mark_seen_raises(c, id, title, link, source) ==
  IF c = None THEN Raise("AttributeError") ELSE Return(None)

\* mark_seen: disabled, a no-op that returns None.
mark_seen(c, id, title, link, source) == Return(None)

\* A match that lowercases the text only
keywords_match_cased(text, keywords, min_match) ==
  LET text_l == Lower(PyOr(text, PyStr(<<>>)).value)
      found == SelectSeq(keywords, LAMBDA k : Contains(text_l, k))
  IN  IF Len(found) >= min_match THEN found ELSE <<>>

\* keywords_match: the keywords whose lowercase form is in the lowercased
\* text, in keyword order, or [] when fewer than min_match are.
keywords_match(text, keywords, min_match) ==
  LET text_l == Lower(PyOr(text, PyStr(<<>>)).value)
      found == SelectSeq(keywords, LAMBDA k : Contains(text_l, Lower(k)))
  IN  IF Len(found) >= min_match THEN found ELSE <<>>

(***************************************************************************)
(* Bounds of the model                                                     *)
(***************************************************************************)

\* the most items a RemoteOK response, or entries a feed, holds
MaxEntries == 2

\* the most feed URLs configured in CUSTOM_FEEDS
MaxFeeds == 2

\* All sequences over S of length at most n.
SeqsUpTo(S, n) == UNION { [1..k -> S] : k \in 0..n }

(***************************************************************************)
(* What the sources can answer                                             *)
(***************************************************************************)

\* RemoteOK: the leading metadata object, which has no position or title
ItemLegal == PyDict([legal |-> PyStr(<< "t", "e", "r", "m", "s" >>)])

\* an array element that is no object
ItemNotDict == PyStr(<< "o", "k" >>)

ItemJob ==
  PyDict([position |-> PyStr(<< "P", "y", "t", "h", "o", "n", " ", "D", "j", "a", "n", "g", "o", " ", "d", "e", "v" >>),
          company |-> PyStr(<< "A", "c", "m", "e" >>),
          description |-> PyStr(<< "R", "e", "m", "o", "t", "e" >>),
          url |-> PyStr(<< "h", "t", "t", "p", "s", ":", "/", "/", "r", ".", "o", "k", "/", "1" >>)])

\* the fallback field names, title and apply_url
ItemAlt ==
  PyDict([title |-> PyStr(<< "F", "a", "s", "t", "A", "P", "I" >>),
          apply_url |-> PyStr(<< "h", "t", "t", "p", "s", ":", "/", "/", "e", ".", "i", "o", "/", "1" >>)])

\* no url and no apply_url
ItemNoLink == PyDict([position |-> PyStr(<< "F", "r", "e", "e", "l", "a", "n", "c", "e" >>), company |-> PyStr(<< "I", "n", "k" >>)])

ItemNoMatch ==
  PyDict([position |-> PyStr(<< "N", "o", " ", "m", "a", "t", "c", "h", " ", "h", "e", "r", "e" >>), url |-> PyStr(<< "h", "t", "t", "p", "s", ":", "/", "/", "r", ".", "o", "k", "/", "2" >>)])

\* a position that is a number, in a matching posting without a link
ItemBad == PyDict([position |-> PyInt(7), description |-> PyStr(<< "p", "y", "t", "h", "o", "n" >>)])

RemoteItems == { ItemLegal, ItemNotDict, ItemJob, ItemAlt, ItemNoLink, ItemNoMatch, ItemBad }

\* requests.get raises (timeout, connection), raise_for_status raises, r.json() raises,
\* or the body is a JSON array
RemoteokResponses ==
  { [kind |-> k] : k \in { "timeout", "http_error", "invalid_json" } }
    \cup { [kind |-> "json", data |-> d] : d \in SeqsUpTo(RemoteItems, MaxEntries) }

\* Feed entries; the first carries the link of ItemAlt.
EntryJob ==
  [title |-> PyStr(<< "P", "y", "t", "h", "o", "n" >>),
   link |-> PyStr(<< "h", "t", "t", "p", "s", ":", "/", "/", "e", ".", "i", "o", "/", "1" >>),
   summary |-> PyStr(<< "D", "j", "a", "n", "g", "o" >>)]

EntryNoMatch ==
  [title |-> PyStr(<< "G", "o", " ", "d", "e", "v" >>), link |-> PyStr(<< "h", "t", "t", "p", "s", ":", "/", "/", "e", ".", "i", "o", "/", "2" >>)]

\* a link that is no string
EntryBad == [title |-> PyStr(<< "D", "j", "a", "n", "g", "o" >>), link |-> PyInt(5)]

RssEntries == { EntryJob, EntryNoMatch, EntryBad }

\* feedparser.parse raises, or yields a feed with entries
RssResponses ==
  { [kind |-> "raise"] }
    \cup { [kind |-> "feed", entries |-> e] : e \in SeqsUpTo(RssEntries, MaxEntries) }

IndeedUrl == "https://www.indeed.com/rss?q=python+django"

FeedUrls ==
  << "https://weworkremotely.com/categories/remote-programming-jobs.rss",
     "https://stackoverflow.com/jobs/feed?tags=python;django&sort=i",
     "https://remotive.io/remote-jobs/software-dev.rss",
     "https://pythonjobs.github.io/feed.xml" >>

(***************************************************************************)
(* Source fetchers                                                         *)
(***************************************************************************)

\* An identifier taken from the title alone
JobIdFromTitle(link, title) == make_id(title)

\* make_id(link or title)
JobId(link, title) == make_id(PyOr(link, title))

\* results.append({...}): the dict is built first, and make_id may raise
AppendJob(id, title, link, description, source, matches) ==
  IF id.raised THEN id
  ELSE Return(<< [id |-> id.value, title |-> title, link |-> link,
                  description |-> description, source |-> source,
                  matches |-> matches] >>)

\* One pass of the body of the for loop of fetch_remoteok: the job to append,
\* nothing, or an exception.
RemoteokItem(item, keywords) ==
  IF item.type # "dict" THEN Return(<<>>)
  ELSE IF ~("position" \in DOMAIN item.fields \/ "title" \in DOMAIN item.fields)
  THEN Return(<<>>)
  ELSE
    LET f == item.fields
        title == PyOr(PyOr(DictGet(f, "position", None), DictGet(f, "title", None)),
                      PyStr(<<>>))
        description == DictGet(f, "description", PyStr(<<>>))
        company == DictGet(f, "company", PyStr(<<>>))
        link == PyOr(PyOr(DictGet(f, "url", None), DictGet(f, "apply_url", None)),
                     PyStr(<<>>))
        combined == Format(title) \o << " " >> \o Format(company) \o << " " >>
                      \o Format(description)
        matches == keywords_match(PyStr(combined), keywords, MIN_KEYWORD_MATCH)
    IN  IF matches = <<>> THEN Return(<<>>)
        ELSE AppendJob(JobId(link, title), title, link, description, "remoteok", matches)

\* The for loop of fetch_remoteok from item i on: the results, or the
\* exception together with the results gathered before it.
RECURSIVE RemoteokLoop(_, _, _, _)
RemoteokStep(data, i, acc, keywords, r) ==
  IF r.raised THEN [raised |-> TRUE, results |-> acc]
  ELSE RemoteokLoop(data, i + 1, acc \o r.value, keywords)

RemoteokLoop(data, i, acc, keywords) ==
  IF i > Len(data) THEN [raised |-> FALSE, results |-> acc]
  ELSE RemoteokStep(data, i, acc, keywords, RemoteokItem(data[i], keywords))

\* An except clause that keeps what the try block had gathered
ExceptReturnsGathered(body) ==
  [raised |-> FALSE, error |-> body.raised, gathered |-> Len(body.results),
   ret |-> body.results]

\* `except Exception: print(...); return []`, after the try block ended as
\* body tells.  error tells whether the except clause ran; gathered, how many
\* results the try block held when it ended; raised, whether the call raised
\* to its caller.
ExceptReturnsEmpty(body) ==
  [raised |-> FALSE, error |-> body.raised, gathered |-> Len(body.results),
   ret |-> IF body.raised THEN <<>> ELSE body.results]

\* fetch_remoteok: the try block and its except clause.
fetch_remoteok(keywords, resp) ==
  IF resp.kind # "json" THEN ExceptReturnsEmpty([raised |-> TRUE, results |-> <<>>])
  ELSE ExceptReturnsEmpty(RemoteokLoop(resp.data, 1, <<>>, keywords))

\* One pass of the body of the for loop of fetch_rss_feed.
RssEntry(feed_url, entry, keywords) ==
  LET title == DictGet(entry, "title", PyStr(<<>>))
      link == DictGet(entry, "link", PyStr(<<>>))
      summary == DictGet(entry, "summary", PyStr(<<>>))
      combined == Format(title) \o << " " >> \o Format(summary)
      matches == keywords_match(PyStr(combined), keywords, MIN_KEYWORD_MATCH)
  IN  IF matches = <<>> THEN Return(<<>>)
      ELSE AppendJob(JobId(link, title), title, link, summary, feed_url, matches)

\* The for loop of fetch_rss_feed from entry i on
RECURSIVE RssLoop(_, _, _, _, _)
RssStep(feed_url, entries, i, acc, keywords, r) ==
  IF r.raised THEN [raised |-> TRUE, results |-> acc]
  ELSE RssLoop(feed_url, entries, i + 1, acc \o r.value, keywords)

RssLoop(feed_url, entries, i, acc, keywords) ==
  IF i > Len(entries) THEN [raised |-> FALSE, results |-> acc]
  ELSE RssStep(feed_url, entries, i, acc, keywords, RssEntry(feed_url, entries[i], keywords))

\* fetch_rss_feed: the try block and its except clause.
fetch_rss_feed(feed_url, keywords, resp) ==
  IF resp.kind # "feed" THEN ExceptReturnsEmpty([raised |-> TRUE, results |-> <<>>])
  ELSE ExceptReturnsEmpty(RssLoop(feed_url, resp.entries, 1, <<>>, keywords))

\* fetch_indeed_rss: the query string it builds is not used.
fetch_indeed_rss(keywords, resp) == fetch_rss_feed(IndeedUrl, keywords, resp)

\* An extend that drops the jobs whose identifier is already there
ExtendNew(acc, more) ==
  acc \o SelectSeq(more, LAMBDA j : \A k \in 1..Len(acc) : acc[k].id # j.id)

\* results.extend(...) in fetch_custom_feeds
Extend(acc, more) == acc \o more

\* The fetchers are functions of their arguments and of the upstream answer;
\* their values for KEYWORDS on the modelled answers, computed once.
RemoteokTable ==
  { [resp |-> r, out |-> fetch_remoteok(KEYWORDS, r)] : r \in RemoteokResponses }

IndeedTable ==
  { [resp |-> r, out |-> fetch_indeed_rss(KEYWORDS, r)] : r \in RssResponses }

RssTable ==
  { [feed_url |-> FeedUrls[i], resp |-> r, out |-> fetch_rss_feed(FeedUrls[i], KEYWORDS, r)] :
      i \in 1..Len(FeedUrls), r \in RssResponses }

(***************************************************************************)
(* Notification helpers                                                    *)
(***************************************************************************)

\* What the transport does with one request: it goes through, or it raises
\* (no connection, a timeout, an error status, a refused login).
TransportOutcomes == { "ok", "error" }

\* notify_telegram: False at once without a token or a chat id; otherwise one
\* POST, whose exception is caught.  attempted tells whether the POST was made.
notify_telegram(bot_token, chat_id, text, outcome) ==
  IF bot_token = "" \/ chat_id = "" THEN [raised |-> FALSE, ret |-> FALSE, attempted |-> FALSE]
  ELSE IF outcome = "ok" THEN [raised |-> FALSE, ret |-> TRUE, attempted |-> TRUE]
  ELSE [raised |-> FALSE, ret |-> FALSE, attempted |-> TRUE]

\* A notify_email whose SMTP session is outside the try block
notify_email_uncaught(smtp_host, smtp_port, user, password, frm, to, subject, body, outcome) ==
  IF outcome = "ok" THEN [raised |-> FALSE, ret |-> TRUE, attempted |-> TRUE]
  ELSE [raised |-> TRUE, ret |-> FALSE, attempted |-> TRUE]

\* notify_email: the whole SMTP session is inside the try block.
notify_email(smtp_host, smtp_port, user, password, frm, to, subject, body, outcome) ==
  IF outcome = "ok" THEN [raised |-> FALSE, ret |-> TRUE, attempted |-> TRUE]
  ELSE [raised |-> FALSE, ret |-> FALSE, attempted |-> TRUE]

(***************************************************************************)
(* run_once                                                                *)
(***************************************************************************)

VARIABLES
  pc,                  \* the position in run_once
  SOURCES,             \* CONFIG: the per-source flags, a dict
  CUSTOM_FEEDS,        \* CONFIG: the feed URLs
  TELEGRAM_BOT_TOKEN,  \* CONFIG
  TELEGRAM_CHAT_ID,    \* CONFIG
  SMTP_USER,           \* CONFIG
  SMTP_PASS,           \* CONFIG
  conn,                \* run_once: the database handle
  found_new,           \* run_once: the batch
  feed_i,              \* fetch_custom_feeds: the index of the next feed
  results,             \* fetch_custom_feeds: its results so far
  message,             \* run_once: the subject and body, once built
  sent,                \* run_once: the result of notify_telegram
  sent_email,          \* run_once: the result of notify_email
  calls,               \* history: the fetcher and notifier calls that returned
  log,                 \* history: the lines printed
  m_text,              \* keywords_match applied on its own: the text
  m_keywords,          \*   the keywords
  m_min,               \*   min_match
  m_found,             \*   the result, once applied
  tests                \* _run_basic_tests: not run, passed, or failed

config == << SOURCES, CUSTOM_FEEDS, TELEGRAM_BOT_TOKEN, TELEGRAM_CHAT_ID, SMTP_USER, SMTP_PASS >>
runvars == << pc, conn, found_new, feed_i, results, message, sent, sent_email, calls, log >>
matchvars == << m_text, m_keywords, m_min, m_found, tests >>
vars == << config, runvars, matchvars >>

\* The SOURCES dicts: the two keys of the script with either value, and the
\* key the script omits, indeed_rss, absent or with either value.
SourcesDicts ==
  { f \in UNION { [D -> BOOLEAN] : D \in SUBSET { "remoteok", "indeed_rss", "custom_feeds" } } :
      { "remoteok", "custom_feeds" } \subseteq DOMAIN f }

\* SOURCES.get(key): None, which is falsy, for a key that is not there
SourcesGet(key) == IF key \in DOMAIN SOURCES THEN SOURCES[key] ELSE FALSE

\* The for loop over the jobs of one source: mark_seen, then append.
RECURSIVE AppendJobs(_, _, _, _)
AppendJobs(c, found, jobs, i) ==
  IF i > Len(jobs) THEN [raised |-> FALSE, found |-> found]
  ELSE LET j == jobs[i]
           m == mark_seen(c, j.id, j.title, j.link, j.source)
       IN  IF m.raised THEN [raised |-> TRUE, found |-> found]
           ELSE AppendJobs(c, Append(found, j), jobs, i + 1)

\* A run_once without the early return
NoneFound(found) == FALSE

\* `if not found_new`
NoJobs(found) == found = <<>>

\* An email guard that ignores the Telegram result
EmailGuardNoSent(s, user, password) == user # "" /\ password # ""

\* `if not sent and SMTP_USER and SMTP_PASS`
EmailGuard(s, user, password) == ~s /\ user # "" /\ password # ""

\* `if CUSTOM_FEEDS`
CustomGuard(flags, feeds) == feeds # <<>>

\* `if not sent`, before the last print
NotSentGuard(s, s_email) == ~s

RunInit ==
  /\ pc = "start"
  /\ SOURCES \in SourcesDicts
  /\ CUSTOM_FEEDS \in { SubSeq(FeedUrls, 1, n) : n \in 0..MaxFeeds }
  /\ TELEGRAM_BOT_TOKEN \in { "", "123:abc" }
  /\ TELEGRAM_CHAT_ID \in { "", "42" }
  /\ SMTP_USER \in { "", "me@gmail.com" }
  /\ SMTP_PASS \in { "", "secret" }
  /\ conn = None
  /\ found_new = <<>>
  /\ feed_i = 0
  /\ results = <<>>
  /\ message = [built |-> FALSE]
  /\ sent = FALSE
  /\ sent_email = FALSE
  /\ calls = <<>>
  /\ log = <<>>

MatchIdle ==
  /\ m_text = None
  /\ m_keywords = <<>>
  /\ m_min = 0
  /\ m_found = [applied |-> FALSE]
  /\ tests = "not run"

Init == RunInit /\ MatchIdle

\* The jobs of one source reach the batch, unless mark_seen raises: run_once
\* catches nothing.
Collect(out, next, entry, lines) ==
  IF out.raised
  THEN /\ pc' = "aborted"
       /\ UNCHANGED << found_new, calls >>
       /\ log' = log \o lines
  ELSE LET a == AppendJobs(conn, found_new, out.ret, 1)
       IN  /\ found_new' = a.found
           /\ calls' = calls \o entry
           /\ log' = log \o lines \o (IF out.error THEN << "fetch error" >> ELSE <<>>)
           /\ pc' = IF a.raised THEN "aborted" ELSE next

\* run_once is entered: conn = None, found_new = []
Enter ==
  /\ pc = "start"
  /\ conn' = None
  /\ found_new' = <<>>
  /\ pc' = "remoteok"
  /\ UNCHANGED << config, feed_i, results, message, sent, sent_email, calls, log, matchvars >>

\* 1) RemoteOK
RunRemoteok ==
  /\ pc = "remoteok"
  /\ IF SourcesGet("remoteok")
     THEN \E call \in RemoteokTable :
            LET out == call.out
            IN  Collect(out, "indeed_rss",
                        << [fn |-> "fetch_remoteok", error |-> out.error, gathered |-> out.gathered,
                            ret |-> out.ret] >>,
                        << "Checking RemoteOK..." >>)
     ELSE /\ pc' = "indeed_rss"
          /\ UNCHANGED << found_new, calls, log >>
  /\ UNCHANGED << config, conn, feed_i, results, message, sent, sent_email, matchvars >>

\* 2) Indeed RSS
RunIndeed ==
  /\ pc = "indeed_rss"
  /\ IF SourcesGet("indeed_rss")
     THEN \E call \in IndeedTable :
            LET out == call.out
            IN  Collect(out, "custom_feeds",
                        << [fn |-> "fetch_rss_feed", feed_url |-> IndeedUrl, error |-> out.error,
                            gathered |-> out.gathered, ret |-> out.ret],
                           [fn |-> "fetch_indeed_rss", error |-> out.error,
                            gathered |-> out.gathered, ret |-> out.ret] >>,
                        << "Checking Indeed RSS..." >>)
     ELSE /\ pc' = "custom_feeds"
          /\ UNCHANGED << found_new, calls, log >>
  /\ UNCHANGED << config, conn, feed_i, results, message, sent, sent_email, matchvars >>

\* 3) Custom feeds: the guard, and the entry into fetch_custom_feeds
RunCustom ==
  /\ pc = "custom_feeds"
  /\ IF CustomGuard(SOURCES, CUSTOM_FEEDS)
     THEN /\ log' = Append(log, "Checking custom RSS feeds...")
          /\ results' = <<>>
          /\ feed_i' = 1
          /\ pc' = "fetch_custom_feeds"
     ELSE /\ pc' = "check"
          /\ UNCHANGED << log, results, feed_i >>
  /\ UNCHANGED << config, conn, found_new, message, sent, sent_email, calls, matchvars >>

\* fetch_custom_feeds: one pass of its loop, one feed fetched
FetchCustomFeed ==
  /\ pc = "fetch_custom_feeds"
  /\ feed_i <= Len(CUSTOM_FEEDS)
  /\ \E call \in RssTable :
       /\ call.feed_url = CUSTOM_FEEDS[feed_i]
       /\ LET out == call.out
           IN  IF out.raised
               THEN /\ pc' = "aborted"
                    /\ UNCHANGED << results, feed_i, calls, log >>
               ELSE /\ results' = Extend(results, out.ret)
                    /\ feed_i' = feed_i + 1
                    /\ calls' = Append(calls, [fn |-> "fetch_rss_feed",
                                               feed_url |-> CUSTOM_FEEDS[feed_i],
                                               error |-> out.error,
                                               gathered |-> out.gathered, ret |-> out.ret])
                    /\ log' = log \o (IF out.error THEN << "fetch error" >> ELSE <<>>)
                    /\ pc' = pc
  /\ UNCHANGED << config, conn, found_new, message, sent, sent_email, matchvars >>

\* fetch_custom_feeds returns, and its jobs are collected
ReturnCustomFeeds ==
  /\ pc = "fetch_custom_feeds"
  /\ feed_i > Len(CUSTOM_FEEDS)
  /\ LET a == AppendJobs(conn, found_new, results, 1)
     IN  /\ found_new' = a.found
         /\ pc' = IF a.raised THEN "aborted" ELSE "check"
  /\ calls' = Append(calls, [fn |-> "fetch_custom_feeds", error |-> FALSE,
                             gathered |-> Len(results), ret |-> results])
  /\ UNCHANGED << config, conn, feed_i, results, message, sent, sent_email, log, matchvars >>

\* The early return when nothing matched
CheckBatch ==
  /\ pc = "check"
  /\ IF NoJobs(found_new)
     THEN /\ log' = Append(log, "No new matching jobs found.")
          /\ pc' = "done"
     ELSE /\ log' = Append(log, "Found new matching jobs")
          /\ pc' = "summarize"
  /\ UNCHANGED << config, conn, found_new, feed_i, results, message, sent, sent_email,
                  calls, matchvars >>

\* Build message: one line per job, and the subject with the count
Summarize ==
  /\ pc = "summarize"
  /\ message' = [built |-> TRUE, count |-> Len(found_new),
                 lines |-> [i \in 1..Len(found_new) |-> found_new[i].id]]
  /\ pc' = "telegram"
  /\ UNCHANGED << config, conn, found_new, feed_i, results, sent, sent_email, calls, log,
                  matchvars >>

\* sent = False, and the Telegram attempt when it is configured
TryTelegram ==
  /\ pc = "telegram"
  /\ IF TELEGRAM_BOT_TOKEN # "" /\ TELEGRAM_CHAT_ID # ""
     THEN \E outcome \in TransportOutcomes :
            LET r == notify_telegram(TELEGRAM_BOT_TOKEN, TELEGRAM_CHAT_ID, message, outcome)
            IN  /\ sent' = r.ret
                /\ calls' = Append(calls, [fn |-> "notify_telegram", attempted |-> r.attempted,
                                           ret |-> r.ret])
                /\ log' = log \o (IF r.attempted /\ ~r.ret THEN << "Telegram notify failed" >>
                                  ELSE <<>>)
                           \o (IF r.ret THEN << "Notified via Telegram" >> ELSE <<>>)
                /\ pc' = IF r.raised THEN "aborted" ELSE "email"
     ELSE /\ sent' = FALSE
          /\ pc' = "email"
          /\ UNCHANGED << calls, log >>
  /\ UNCHANGED << config, conn, found_new, feed_i, results, message, sent_email, matchvars >>

\* The email fallback, the last print, and the return
TryEmail ==
  /\ pc = "email"
  /\ IF EmailGuard(sent, SMTP_USER, SMTP_PASS)
     THEN \E outcome \in TransportOutcomes :
            LET r == notify_email(SMTP_HOST, SMTP_PORT, SMTP_USER, SMTP_PASS, SMTP_USER, EMAIL_TO,
                                  message, message, outcome)
            IN  IF r.raised
                THEN /\ pc' = "aborted"
                     /\ UNCHANGED << sent_email, calls, log >>
                ELSE /\ sent_email' = r.ret
                     /\ calls' = Append(calls, [fn |-> "notify_email", attempted |-> r.attempted,
                                                ret |-> r.ret])
                     /\ log' = log \o (IF r.ret THEN << "Notified via Email" >>
                                       ELSE << "Email notify failed" >>)
                                \o (IF NotSentGuard(sent, r.ret)
                                    THEN << "Notifications not sent" >> ELSE <<>>)
                     /\ pc' = "done"
     ELSE /\ log' = log \o (IF NotSentGuard(sent, sent_email)
                            THEN << "Notifications not sent" >> ELSE <<>>)
          /\ pc' = "done"
          /\ UNCHANGED << sent_email, calls >>
  /\ UNCHANGED << config, conn, found_new, feed_i, results, message, sent, matchvars >>

Next ==
  \/ Enter
  \/ RunRemoteok
  \/ RunIndeed
  \/ RunCustom
  \/ FetchCustomFeed
  \/ ReturnCustomFeeds
  \/ CheckBatch
  \/ Summarize
  \/ TryTelegram
  \/ TryEmail

Spec == Init /\ [][Next]_vars

\* Every call run_once makes returns or raises (the HTTP and SMTP calls carry
\* timeouts), and the interpreter then runs the next statement.
FairSpec == Spec /\ WF_vars(Next)

(***************************************************************************)
(* The helpers applied on their own                                        *)
(***************************************************************************)

\* the longest text given to keywords_match
MaxTextLen == 2

\* the longest keyword
MaxKeywordLen == 2

\* the most keywords in the list, and the largest min_match
MaxKeywords == 2

TextChars == { "A", "b" }

KeywordChars == { "a", "B" }

\* _run_basic_tests: its assertions, in order
_run_basic_tests ==
  /\ keywords_match(PyStr(<< "S", "e", "n", "i", "o", "r", " ", "P", "y", "t", "h", "o", "n", " ", "D", "j", "a", "n", "g", "o", " ", "d", "e", "v", "e", "l", "o", "p", "e", "r" >>),
                    << << "p", "y", "t", "h", "o", "n" >>, << "d", "j", "a", "n", "g", "o" >> >>, MIN_KEYWORD_MATCH) # <<>>
  /\ keywords_match(PyStr(<< "N", "o", " ", "m", "a", "t", "c", "h", " ", "h", "e", "r", "e" >>),
                    << << "p", "y", "t", "h", "o", "n" >> >>, MIN_KEYWORD_MATCH) = <<>>
  /\ LET a == make_id(PyStr(<< "h", "t", "t", "p", "s", ":", "/", "/", "e", "x", "a", "m", "p", "l", "e", ".", "c", "o", "m", "/", "j", "o", "b", "/", "1" >>))
         b == make_id(PyStr(<< "h", "t", "t", "p", "s", ":", "/", "/", "e", "x", "a", "m", "p", "l", "e", ".", "c", "o", "m", "/", "j", "o", "b", "/", "1" >>))
     IN  ~a.raised /\ a = b
  /\ seen_contains(None, "someid") = FALSE
  /\ ~mark_seen(None, "someid", "title", "link", "src").raised

UnitInit ==
  /\ pc = "unit"
  /\ SOURCES = [remoteok |-> TRUE, custom_feeds |-> TRUE]
  /\ CUSTOM_FEEDS = FeedUrls
  /\ TELEGRAM_BOT_TOKEN = ""
  /\ TELEGRAM_CHAT_ID = ""
  /\ SMTP_USER = ""
  /\ SMTP_PASS = ""
  /\ conn = None
  /\ found_new = <<>>
  /\ feed_i = 0
  /\ results = <<>>
  /\ message = [built |-> FALSE]
  /\ sent = FALSE
  /\ sent_email = FALSE
  /\ calls = <<>>
  /\ log = <<>>
  /\ m_text \in { None } \cup { PyStr(t) : t \in SeqsUpTo(TextChars, MaxTextLen) }
  /\ m_keywords \in SeqsUpTo(SeqsUpTo(KeywordChars, MaxKeywordLen), MaxKeywords)
  /\ m_min \in 0..MaxKeywords
  /\ m_found = [applied |-> FALSE]
  /\ tests = "not run"

\* One call of keywords_match
ApplyMatch ==
  /\ pc = "unit"
  /\ ~m_found.applied
  /\ m_found' = [applied |-> TRUE, found |-> keywords_match(m_text, m_keywords, m_min)]
  /\ UNCHANGED << config, runvars, m_text, m_keywords, m_min, tests >>

\* RUN_JOB_AGENT_TESTS=1: the basic tests run; a failed assertion raises
RunBasicTests ==
  /\ pc = "unit"
  /\ tests = "not run"
  /\ tests' = IF _run_basic_tests THEN "passed" ELSE "failed"
  /\ log' = log \o (IF tests' = "passed" THEN << "Basic tests passed." >> ELSE <<>>)
  /\ UNCHANGED << config, pc, conn, found_new, feed_i, results, message, sent, sent_email,
                  calls, m_text, m_keywords, m_min, m_found >>

UnitNext ==
  \/ ApplyMatch
  \/ RunBasicTests

UnitSpec == UnitInit /\ [][UnitNext]_vars

(***************************************************************************)
(* Reading the history                                                     *)
(***************************************************************************)

\* The calls of one function, in the order they returned
CallsOf(fn) == SelectSeq(calls, LAMBDA c : c.fn = fn)

\* The calls run_once itself made to the three source fetchers
SourceCalls ==
  SelectSeq(calls, LAMBDA c : c.fn \in { "fetch_remoteok", "fetch_indeed_rss", "fetch_custom_feeds" })

\* The calls fetch_custom_feeds made to fetch_rss_feed
FeedCalls == SelectSeq(calls, LAMBDA c : c.fn = "fetch_rss_feed" /\ c.feed_url # IndeedUrl)

\* Every call that fetched one upstream
UpstreamCalls == SelectSeq(calls, LAMBDA c : c.fn \in { "fetch_remoteok", "fetch_rss_feed" })

RECURSIVE ConcatRets(_)
ConcatRets(cs) == IF cs = <<>> THEN <<>> ELSE Head(cs).ret \o ConcatRets(Tail(cs))

\* The fetching part of run_once is over
Fetched == pc \in { "check", "summarize", "telegram", "email", "done" }

TelegramSucceeded == \E i \in 1..Len(calls) : calls[i].fn = "notify_telegram" /\ calls[i].ret

EmailSucceeded == \E i \in 1..Len(calls) : calls[i].fn = "notify_email" /\ calls[i].ret

\* The states of the orchestrator, read off the position in run_once
Phase ==
  CASE pc = "start" -> "Start"
    [] pc \in { "remoteok", "indeed_rss", "custom_feeds", "fetch_custom_feeds", "check" } -> "FetchAll"
    [] pc = "summarize" -> "Summarize"
    [] pc \in { "telegram", "email" } -> "Notify"
    [] pc = "done" -> "Done"
    [] OTHER -> "Abort"

(***************************************************************************)
(* C1                                                                      *)
(***************************************************************************)

\* k occurs in t as a run of consecutive characters
Occurs(k, t) ==
  \E i \in 1..(Len(t) + 1) :
    /\ i + Len(k) - 1 <= Len(t)
    /\ \A j \in 1..Len(k) : t[i + j - 1] = k[j]

\* The keywords of K that occur in T when case is ignored, in the order of K
Hits(T, K) == SelectSeq(K, LAMBDA k : Occurs(Lower(k), Lower(T)))

\* C1: keywords_match(T, K, m) is exactly the keywords of K whose lowercase
\* form is a substring of lowercased T, in the order of K, when there are at
\* least m of them, and the empty list otherwise; with m = 1 the result is
\* non-empty iff some keyword of K occurs in T case-insensitively.
C1_KeywordsMatch ==
  m_found.applied =>
    LET T == IF m_text = None THEN <<>> ELSE m_text.value
        hits == Hits(T, m_keywords)
    IN  /\ m_found.found = IF Len(hits) >= m_min THEN hits ELSE <<>>
        /\ m_min = 1 =>
             (m_found.found # <<>> <=>
                \E i \in 1..Len(m_keywords) : Occurs(Lower(m_keywords[i]), Lower(T)))

\* Two keywords met in a text of the other case, with a threshold of two
C1_Witness ==
  /\ m_found.applied
  /\ m_text = PyStr(<< "A", "b" >>)
  /\ m_keywords = << << "B" >>, << "a" >> >>
  /\ m_min = 2
  /\ m_found.found = m_keywords

(***************************************************************************)
(* C2                                                                      *)
(***************************************************************************)

\* C2: with a non-empty batch the Telegram sender is attempted first, and only
\* with both the bot token and the chat id configured; the email sender is
\* attempted only after the Telegram attempt was skipped or returned failure
\* and with both SMTP user and password configured; after a Telegram success
\* the email sender is never attempted.
C2_NotifierPriority ==
  LET tg == CallsOf("notify_telegram")
      em == CallsOf("notify_email")
  IN  /\ Len(tg) <= 1 /\ Len(em) <= 1
      /\ Len(tg) = 1 =>
           /\ TELEGRAM_BOT_TOKEN # "" /\ TELEGRAM_CHAT_ID # ""
           /\ tg[1].attempted
           /\ found_new # <<>>
      /\ (pc \in { "email", "done" } /\ found_new # <<>>
            /\ TELEGRAM_BOT_TOKEN # "" /\ TELEGRAM_CHAT_ID # "") => Len(tg) = 1
      /\ \A i, j \in 1..Len(calls) :
           (calls[i].fn = "notify_telegram" /\ calls[j].fn = "notify_email") => i < j
      /\ Len(em) = 1 =>
           /\ SMTP_USER # "" /\ SMTP_PASS # ""
           /\ Len(tg) = 0 \/ ~tg[1].ret
           /\ pc = "done"
      /\ TelegramSucceeded => Len(em) = 0

\* Telegram was tried and failed, and the email sender was tried after it
C2_Witness ==
  /\ Len(CallsOf("notify_telegram")) = 1
  /\ ~TelegramSucceeded
  /\ Len(CallsOf("notify_email")) = 1

(***************************************************************************)
(* C3                                                                      *)
(***************************************************************************)

\* C3: with a non-empty batch, the 'notifications not sent' line is printed
\* if and only if neither the Telegram sender nor the email sender succeeded.
C3_NotSentIffNeitherSucceeded ==
  (pc = "done" /\ found_new # <<>>) =>
    (("Notifications not sent" \in { log[i] : i \in 1..Len(log) })
       <=> ~(TelegramSucceeded \/ EmailSucceeded))

(***************************************************************************)
(* C4                                                                      *)
(***************************************************************************)

\* C4: each source fetcher is called exactly once when its flag in SOURCES is
\* set and not at all when the flag is unset or false, in the order RemoteOK,
\* Indeed RSS, custom feeds.
C4_FetchersFollowFlags ==
  Fetched =>
    /\ Len(CallsOf("fetch_remoteok")) = IF SourcesGet("remoteok") THEN 1 ELSE 0
    /\ Len(CallsOf("fetch_indeed_rss")) = IF SourcesGet("indeed_rss") THEN 1 ELSE 0
    /\ Len(CallsOf("fetch_custom_feeds")) = IF SourcesGet("custom_feeds") THEN 1 ELSE 0
    /\ \A i, j \in 1..Len(SourceCalls) :
         (i < j) =>
           \/ SourceCalls[i].fn = "fetch_remoteok"
           \/ SourceCalls[j].fn = "fetch_custom_feeds"

(***************************************************************************)
(* C5                                                                      *)
(***************************************************************************)

\* C5: an error inside fetch_remoteok or fetch_rss_feed, also one raised after
\* some entries were gathered, gives the empty list for that source only: the
\* call returns [] and does not raise, what the other sources and feeds
\* returned stays in the batch, and run_once fetches the remaining sources.
C5_FetchErrorsContained ==
  /\ pc # "aborted"
  /\ \A i \in 1..Len(calls) :
       (calls[i].fn \in { "fetch_remoteok", "fetch_rss_feed", "fetch_indeed_rss" }) =>
         /\ calls[i].error => calls[i].ret = <<>>
         /\ ~calls[i].error => Len(calls[i].ret) = calls[i].gathered
  /\ found_new = ConcatRets(SourceCalls)
  /\ pc = "fetch_custom_feeds" => results = ConcatRets(FeedCalls)
  /\ Fetched =>
       /\ SourcesGet("remoteok") => Len(CallsOf("fetch_remoteok")) = 1
       /\ SourcesGet("indeed_rss") => Len(CallsOf("fetch_indeed_rss")) = 1
       /\ Len(FeedCalls) = Len(CUSTOM_FEEDS)
       /\ \A i \in 1..Len(FeedCalls) : FeedCalls[i].feed_url = CUSTOM_FEEDS[i]

\* A feed failed after it had gathered a job, and a later feed's jobs are in
\* the batch
C5_Witness ==
  /\ Fetched
  /\ \E i, j \in 1..Len(FeedCalls) :
       /\ i < j
       /\ FeedCalls[i].error /\ FeedCalls[i].gathered > 0 /\ FeedCalls[i].ret = <<>>
       /\ FeedCalls[j].ret # <<>>
       /\ \E k \in 1..Len(found_new) : found_new[k] = FeedCalls[j].ret[1]

(***************************************************************************)
(* C6                                                                      *)
(***************************************************************************)

\* The steps between the states of the orchestrator
PhaseSteps ==
  { << "Start", "FetchAll" >>, << "FetchAll", "Summarize" >>, << "FetchAll", "Done" >>,
    << "Summarize", "Notify" >>, << "Notify", "Done" >> }

\* C6: whatever fails, run_once goes from Start to FetchAll and then either
\* to Done or through Summarize and Notify to Done; it returns to no state it
\* left, it never aborts, and it eventually reaches Done.
C6_RunReachesDone ==
  /\ [][Phase' # Phase => << Phase, Phase' >> \in PhaseSteps]_vars
  /\ [](Phase # "Abort")
  /\ <>(pc = "done")

\* A run that ended after a fetcher failed and both senders failed
C6_Witness ==
  /\ pc = "done"
  /\ \E i \in 1..Len(UpstreamCalls) : UpstreamCalls[i].error
  /\ Len(CallsOf("notify_telegram")) = 1 /\ ~TelegramSucceeded
  /\ Len(CallsOf("notify_email")) = 1 /\ ~EmailSucceeded

(***************************************************************************)
(* C7                                                                      *)
(***************************************************************************)

\* C7: with an empty batch after the fetchers, run_once ends at once: no
\* message is built, no sender is called whatever credentials are set, and
\* 'No new matching jobs found.' is printed; with a non-empty batch this
\* early exit is not taken.
C7_EmptyBatchEndsRun ==
  LET printed == { log[i] : i \in 1..Len(log) }
      notified == \E i \in 1..Len(calls) : calls[i].fn \in { "notify_telegram", "notify_email" }
  IN  /\ (pc = "done" /\ found_new = <<>>) =>
           /\ ~message.built
           /\ ~notified
           /\ log # <<>> /\ log[Len(log)] = "No new matching jobs found."
      /\ pc \in { "summarize", "telegram", "email" } => found_new # <<>>
      /\ (message.built \/ notified) => found_new # <<>>
      /\ found_new # <<>> => "No new matching jobs found." \notin printed
      /\ (pc = "done" /\ found_new # <<>>) =>
           /\ message.built
           /\ "Found new matching jobs" \in printed

\* A run with every credential set that found nothing, though a source was asked
C7_Witness ==
  /\ pc = "done"
  /\ found_new = <<>>
  /\ TELEGRAM_BOT_TOKEN # "" /\ TELEGRAM_CHAT_ID # ""
  /\ SMTP_USER # "" /\ SMTP_PASS # ""
  /\ Len(SourceCalls) > 0

(***************************************************************************)
(* C8                                                                      *)
(***************************************************************************)

\* C8: the seen-store is a stub: init_db gives None, seen_contains is False
\* for every identifier, those handed to mark_seen included, mark_seen never
\* raises; so every record a fetcher returned is in the batch.
C8_SeenStoreStub ==
  /\ init_db(DB_PATH) = None
  /\ conn = init_db(DB_PATH)
  /\ pc # "aborted"
  /\ tests # "failed"
  /\ \A i \in 1..Len(found_new) :
       /\ ~seen_contains(conn, found_new[i].id)
       /\ ~mark_seen(conn, found_new[i].id, found_new[i].title, found_new[i].link,
                     found_new[i].source).raised
  /\ Len(found_new) = Len(ConcatRets(SourceCalls))
  /\ \A i \in 1..Len(SourceCalls) :
       \A k \in 1..Len(SourceCalls[i].ret) :
         \E n \in 1..Len(found_new) : found_new[n] = SourceCalls[i].ret[k]

\* Two sources returned records, and the run ended
C8_Witness ==
  /\ pc = "done"
  /\ \E i, j \in 1..Len(SourceCalls) : i < j /\ SourceCalls[i].ret # <<>> /\ SourceCalls[j].ret # <<>>

(***************************************************************************)
(* C9                                                                      *)
(***************************************************************************)

\* The strings the upstream answers hold, the empty string with them
IdInputs ==
  LET held == UNION ({ { it.fields[k] : k \in DOMAIN it.fields } :
                         it \in { x \in RemoteItems : x.type = "dict" } }
                       \cup { { e[k] : k \in DOMAIN e } : e \in RssEntries })
  IN  { PyStr(<<>>) } \cup { v \in held : v.type = "str" }

\* make_id on each of them
Digests == { [text |-> t, id |-> make_id(t).value] : t \in IdInputs }

\* The records the fetchers returned, and those of the batch
Emitted ==
  { found_new[i] : i \in 1..Len(found_new) }
    \cup UNION { { UpstreamCalls[i].ret[k] : k \in 1..Len(UpstreamCalls[i].ret) } :
                   i \in 1..Len(UpstreamCalls) }

\* C9: the identifier of every record a fetcher emits is make_id(link) when
\* the link is non-empty and make_id(title) when it is empty or absent; equal
\* strings have equal digests, so two records with the same non-empty link
\* carry the same identifier whatever their source.
C9_IdFromLinkOrTitle ==
  /\ \A r \in Emitted :
       LET key == IF r.link.value # <<>> THEN r.link ELSE r.title
       IN  \E d \in Digests : d.text = key /\ d.id = r.id
  /\ \A d1, d2 \in Digests : d1.text = d2.text => d1.id = d2.id
  /\ \A r1, r2 \in Emitted : (r1.link.value # <<>> /\ r1.link = r2.link) => r1.id = r2.id

\* The batch holds the same link from two sources, and a record without link
C9_Witness ==
  /\ \E r1, r2 \in Emitted :
       /\ r1.source # r2.source
       /\ r1.link.value # <<>>
       /\ r1.link = r2.link
       /\ r1.id = r2.id
  /\ \E r \in Emitted : r.link.value = <<>> /\ r.title.value # <<>>

(***************************************************************************)
(* C10                                                                     *)
(***************************************************************************)

RECURSIVE SumLens(_)
SumLens(cs) == IF cs = <<>> THEN 0 ELSE Len(Head(cs).ret) + SumLens(Tail(cs))

\* C10: fetch_custom_feeds returns the results of fetch_rss_feed for the
\* feeds, in the order of CUSTOM_FEEDS, one after the other and with nothing
\* removed: its length is the sum of theirs, and a job that two feeds carry is
\* twice in the result and in the batch.
C10_CustomFeedsConcatenate ==
  /\ pc = "fetch_custom_feeds" =>
       /\ Len(FeedCalls) = feed_i - 1
       /\ Len(results) = SumLens(FeedCalls)
       /\ results = ConcatRets(FeedCalls)
  /\ \A i \in 1..Len(FeedCalls) : FeedCalls[i].feed_url = CUSTOM_FEEDS[i]
  /\ \A n \in 1..Len(calls) :
       calls[n].fn = "fetch_custom_feeds" =>
         LET ret == calls[n].ret
         IN  /\ Len(FeedCalls) = Len(CUSTOM_FEEDS)
             /\ Len(ret) = SumLens(FeedCalls)
             /\ ret = ConcatRets(FeedCalls)
             /\ Len(found_new) >= Len(ret)
             /\ SubSeq(found_new, Len(found_new) - Len(ret) + 1, Len(found_new)) = ret

\* The same job came from two feeds, and is twice in the batch
C10_Witness ==
  /\ Len(CallsOf("fetch_custom_feeds")) = 1
  /\ Len(CUSTOM_FEEDS) >= 2
  /\ \E i, j \in 1..Len(found_new) :
       /\ i < j
       /\ found_new[i].id = found_new[j].id
       /\ found_new[i].link = found_new[j].link
       /\ found_new[i].source = CUSTOM_FEEDS[1]
       /\ found_new[j].source = CUSTOM_FEEDS[2]
====
